---- MODULE Spec2Model ----
(***************************************************************************)
(* Hedgegram trading bot: the control process of main.py and the programs  *)
(* around it (telegram_bot.py, callback.py, cancel_all.py, the engines).   *)
(*                                                                         *)
(* Spec        the session controller: start_bot / stop_bot under          *)
(*             strategy_lock and the strategy_loop threads they spawn.     *)
(* SpecRead    Spec together with a request thread that reads              *)
(*             current_positions (control_status, control_pnl).            *)
(* SpecExpiry  the expiry_force_exit_watcher thread against a wall clock   *)
(*             (Asia/Kolkata local time, one-minute resolution).           *)
(* SpecPnl     live_positions_with_pnl and paper_positions_with_pnl        *)
(*             applied to bounded books of raw records.                    *)
(* SpecCred    live_auth.json: its three writers, the clear, the loaders.  *)
(* SpecLoad    SpecCred started on any file text.                          *)
(* SpecApi     the /control endpoints behind require_api_key, the chat     *)
(*             /panic and cancel_all.py, with the controller at rest.      *)
(* SpecTotp    control_totp and control_load_liveauth against every answer *)
(*             of the login endpoint.                                      *)
(* SpecFetch   the position source of one strategy_loop poll against every *)
(*             answer of the positions endpoint.                           *)
(* SpecMargin  the started bot left to itself while the account's margin   *)
(*             moves, its threads scheduled fairly.                        *)
(* SpecCal     last_thursday and is_expiry_day applied to every date of    *)
(*             the years of the model.                                     *)
(*                                                                         *)
(* Money is held in mills (1/1000 rupee) so that round(x, 2) is a real     *)
(* rounding step; quantities are signed integers as in main.py.            *)
(***************************************************************************)
EXTENDS Integers, Sequences, FiniteSets, TLC

VARIABLES
    running,            \* main.py:72   global running
    runtime_mode,       \* main.py:57   "paper" or "live", fixed at import
    live_auth,          \* main.py:451  app.state.live_auth
    current_positions,  \* main.py:75   dict with optional keys positions, pnl
    strategy_lock,      \* main.py:74   holder of strategy_lock, or NoCaller
    callers,            \* request threads executing start_bot / stop_bot
    threads,            \* strategy_loop thread instances
    reader,             \* a request thread executing control_status / control_pnl
    window,             \* history: results of start_bot since the last stop_bot,
                        \*          of stop_bot since the last start_bot
    clock,              \* local wall clock seen by the expiry watcher
    boot,               \* the clock when the process started
    polls,              \* watcher polls made in the current clock minute
    triggered_today,    \* main.py:330  local flag of the watcher
    fired,              \* history: force-exits executed on the current date
    last_exit,          \* history: result of the last close_all_positions call
    enrich_in,          \* what an enrichment call reads: source, raw records, quotes
    enrich_out,         \* what it returned
    fs,                 \* the files live_auth.json and live_auth.json.tmp
    writers,            \* the processes that write the credential file
    loaded,             \* what the last credential load read and returned
    saved,              \* history: the credential of the last save that ran
                        \*          alone, while the file is untouched since
    cleared,            \* history: the file was removed and not written since
    live_auth_ts,       \* main.py:452  app.state.live_auth_ts
    api_key,            \* main.py:42   CONTROL_API_KEY, "" when not configured
    http,               \* the last control request and the status it got
    view,               \* the last response of GET /control/liveauth
    cancel_log,         \* the last cancel-all request that reached the broker
    upstream,           \* what the broker answers to the next positions request
    fetched,            \* what the position source of one poll handed back
    margin,             \* the available margin of the account, in rupees
    login,              \* what the broker answered to the last TOTP exchange
    cal                 \* a date, and what last_thursday and is_expiry_day
                        \* returned for it

vars == << running, runtime_mode, live_auth, current_positions, strategy_lock,
           callers, threads, reader, window, clock, boot, polls,
           triggered_today, fired, last_exit, enrich_in, enrich_out,
           fs, writers, loaded, saved, cleared, live_auth_ts,
           api_key, http, view, cancel_log, upstream, fetched, margin, login, cal >>

ctlVars == << running, runtime_mode, live_auth, current_positions, strategy_lock,
              callers, threads, reader, window >>

expVars == << clock, boot, polls, triggered_today, fired, last_exit >>

pnlVars == << enrich_in, enrich_out >>

credVars == << fs, writers, loaded, saved, cleared, live_auth_ts >>

apiVars == << api_key, http, view, cancel_log >>

brokerVars == << upstream, fetched, margin, login >>

\* The controller state a credential operation leaves alone.
ctlRest == << running, runtime_mode, current_positions, strategy_lock,
              callers, threads, reader, window >>

\* State of the other components, which the controller and the watcher
\* leave alone.
auxVars == << pnlVars, credVars, apiVars, brokerVars, cal >>

----------------------------------------------------------------------------
(* Bounds of the model *)

MaxThreads == 2

FirstYear == 2023
MaxYears == 4

Callers == {"c1", "c2"}
NoCaller == "nobody"
ThreadIds == 1..MaxThreads

----------------------------------------------------------------------------
(* Values *)

Unset == [set |-> FALSE, val |-> <<>>]
Val(v) == [set |-> TRUE, val |-> v]

NoAuth == [present |-> FALSE, jwtToken |-> "", sid |-> ""]
Auth1 == [present |-> TRUE, jwtToken |-> "jwt1", sid |-> "sid1"]

paper_fetch_positions ==
    << [symbol |-> "FINNIFTY-MONTH-CE-5OTM", qty |-> 65, avg_price |-> 100000, ltp |-> 104500],
       [symbol |-> "FINNIFTY-MONTH-PE-5OTM", qty |-> -65, avg_price |-> 90000, ltp |-> 87000] >>

LiveBookA == << [symbol |-> "NIFTY-CE", qty |-> -50, avg_price |-> 12345, ltp |-> 10101] >>

LiveBookB ==
    << [symbol |-> "BANKNIFTY-PE", qty |-> 0, avg_price |-> 20000, ltp |-> 21000],
       [symbol |-> "NIFTY-PE", qty |-> 25, avg_price |-> 8000, ltp |-> 9500],
       [symbol |-> "NIFTY-CE", qty |-> -50, avg_price |-> 12345, ltp |-> 10101] >>

\* What a response of the positions endpoint may decode to: a list of
\* position records, or a body compute_pnl cannot iterate as records.
UpstreamBodies ==
    { [malformed |-> FALSE, body |-> <<>>],
      [malformed |-> FALSE, body |-> LiveBookA],
      [malformed |-> TRUE,  body |-> <<>>] }

\* requests.post raised: no response at all.
TransportError == [raises |-> TRUE, status |-> 0, malformed |-> FALSE, body |-> <<>>]

\* What the broker may answer to one positions request.
ResponsesOver(bodies) ==
    { TransportError } \cup
    { [raises |-> FALSE, status |-> s, malformed |-> b.malformed, body |-> b.body] :
        s \in {200, 401, 500}, b \in bodies }

\* The answers the strategy loop of Spec is run against, and the same with a
\* book that holds a flat position.
UpstreamResponses == ResponsesOver(UpstreamBodies)
WideResponses ==
    ResponsesOver(UpstreamBodies \cup { [malformed |-> FALSE, body |-> LiveBookB] })

EmptyList == [malformed |-> FALSE, body |-> <<>>]

\* live_fetch_positions(auth) against one answer of the broker: [] when jwt
\* or sid is missing, [] when the request raises or the status is not 200,
\* else r.json().
live_fetch_positions(auth, resp) ==
    IF auth.jwtToken = "" \/ auth.sid = "" THEN EmptyList
    ELSE IF resp.raises THEN EmptyList
    ELSE IF resp.status = 200 THEN [malformed |-> resp.malformed, body |-> resp.body]
    ELSE EmptyList

\* round(x, 2) on a value in mills: nearest multiple of 10, ties to even.
Round2(x) ==
    LET a == IF x < 0 THEN -x ELSE x
        q == a \div 10
        r == a % 10
        n == IF r > 5 \/ (r = 5 /\ q % 2 = 1) THEN q + 1 ELSE q
    IN  IF x < 0 THEN -(n * 10) ELSE n * 10

RECURSIVE SumPnl(_)
SumPnl(positions) ==
    IF positions = <<>> THEN 0
    ELSE LET p == Head(positions)
         IN  (p.ltp - p.avg_price) * p.qty + SumPnl(Tail(positions))

compute_pnl(positions) == Round2(SumPnl(positions))

----------------------------------------------------------------------------
(* Controller state helpers *)

WindowCap == 2

Sat(n) == IF n < WindowCap THEN n + 1 ELSE WindowCap

IdleCaller == [pc |-> "idle"]
NoThread == [pc |-> "none", positions |-> <<>>, pnl |-> 0, stale |-> FALSE]
IdleReader == [pc |-> "idle", positions |-> <<>>, pnl |-> 0]
EmptyWindow == [started |-> 0, already |-> 0, stopped |-> 0]

Active(t) == threads[t].pc # "none"
ActiveLoops == { t \in ThreadIds : Active(t) }
FreeSlots == { t \in ThreadIds : ~Active(t) }

\* The slot a new threading.Thread object occupies.
NewThread == CHOOSE t \in FreeSlots : \A u \in FreeSlots : t <= u

----------------------------------------------------------------------------
(* start_bot, main.py:257-266, called by control_start *)

\* POST /control/start arrives; the request thread reaches `with strategy_lock`.
control_start(c) ==
    /\ callers[c].pc = "idle"
    /\ callers' = [callers EXCEPT ![c].pc = "start_wait"]
    /\ UNCHANGED << running, runtime_mode, live_auth, current_positions,
                    strategy_lock, threads, reader, window >>
    /\ UNCHANGED << expVars, auxVars >>

\* Variant of StartAcquire that enters without waiting for the lock.
StartAcquireNoLock(c) ==
    /\ callers[c].pc = "start_wait"
    /\ strategy_lock' = c
    /\ callers' = [callers EXCEPT ![c].pc = "s260"]
    /\ UNCHANGED << running, runtime_mode, live_auth, current_positions,
                    threads, reader, window >>
    /\ UNCHANGED << expVars, auxVars >>

\* line 259: strategy_lock.__enter__
StartAcquire(c) ==
    /\ callers[c].pc = "start_wait"
    /\ strategy_lock = NoCaller
    /\ strategy_lock' = c
    /\ callers' = [callers EXCEPT ![c].pc = "s260"]
    /\ UNCHANGED << running, runtime_mode, live_auth, current_positions,
                    threads, reader, window >>
    /\ UNCHANGED << expVars, auxVars >>

\* lines 260-261: if running: return {"status": "already_running"} (the lock
\* is released); window.already counts these returns.
StartCheck(c) ==
    /\ callers[c].pc = "s260"
    /\ IF running
       THEN /\ callers' = [callers EXCEPT ![c].pc = "idle"]
            /\ strategy_lock' = NoCaller
            /\ window' = [window EXCEPT !.already = Sat(@)]
       ELSE /\ FreeSlots # {}
            /\ callers' = [callers EXCEPT ![c].pc = "s262"]
            /\ UNCHANGED << strategy_lock, window >>
    /\ UNCHANGED << running, runtime_mode, live_auth, current_positions,
                    threads, reader >>
    /\ UNCHANGED << expVars, auxVars >>

\* line 262: running = True
StartSet(c) ==
    /\ callers[c].pc = "s262"
    /\ running' = TRUE
    /\ callers' = [callers EXCEPT ![c].pc = "s263"]
    /\ window' = [window EXCEPT !.stopped = 0]
    /\ UNCHANGED << runtime_mode, live_auth, current_positions, strategy_lock,
                    threads, reader >>
    /\ UNCHANGED << expVars, auxVars >>

\* lines 263-266: the thread is created and started, the lock released,
\* {"status": "started"} returned; window.started counts these returns.
StartSpawn(c) ==
    /\ callers[c].pc = "s263"
    /\ threads' = [threads EXCEPT ![NewThread] = [NoThread EXCEPT !.pc = "while"]]
    /\ strategy_lock' = NoCaller
    /\ callers' = [callers EXCEPT ![c].pc = "idle"]
    /\ window' = [window EXCEPT !.started = Sat(@)]
    /\ UNCHANGED << running, runtime_mode, live_auth, current_positions, reader >>
    /\ UNCHANGED << expVars, auxVars >>

----------------------------------------------------------------------------
(* stop_bot, main.py:268-273, called by control_stop *)

control_stop(c) ==
    /\ callers[c].pc = "idle"
    /\ callers' = [callers EXCEPT ![c].pc = "stop_wait"]
    /\ UNCHANGED << running, runtime_mode, live_auth, current_positions,
                    strategy_lock, threads, reader, window >>
    /\ UNCHANGED << expVars, auxVars >>

\* line 270: strategy_lock.__enter__
StopAcquire(c) ==
    /\ callers[c].pc = "stop_wait"
    /\ strategy_lock = NoCaller
    /\ strategy_lock' = c
    /\ callers' = [callers EXCEPT ![c].pc = "t271"]
    /\ UNCHANGED << running, runtime_mode, live_auth, current_positions,
                    threads, reader, window >>
    /\ UNCHANGED << expVars, auxVars >>

\* lines 271-273: running = False, the lock released, {"status": "stopped"}
\* returned; window.stopped counts these returns.  Every loop alive at this
\* point is one the stop applies to (stale).
\* Variant of StopSet that flips the flag instead of clearing it.
StopSetToggle(c) ==
    /\ callers[c].pc = "t271"
    /\ running' = ~running
    /\ strategy_lock' = NoCaller
    /\ callers' = [callers EXCEPT ![c].pc = "idle"]
    /\ threads' = [t \in ThreadIds |->
                     IF Active(t) THEN [threads[t] EXCEPT !.stale = TRUE]
                     ELSE threads[t]]
    /\ window' = [EmptyWindow EXCEPT !.stopped = Sat(window.stopped)]
    /\ UNCHANGED << runtime_mode, live_auth, current_positions, reader >>
    /\ UNCHANGED << expVars, auxVars >>

\* Variant of StopSet that also drops the published snapshot.
StopSetClears(c) ==
    /\ callers[c].pc = "t271"
    /\ running' = FALSE
    /\ current_positions' = [positions |-> Unset, pnl |-> Unset]
    /\ strategy_lock' = NoCaller
    /\ callers' = [callers EXCEPT ![c].pc = "idle"]
    /\ threads' = [t \in ThreadIds |->
                     IF Active(t) THEN [threads[t] EXCEPT !.stale = TRUE]
                     ELSE threads[t]]
    /\ window' = [EmptyWindow EXCEPT !.stopped = Sat(window.stopped)]
    /\ UNCHANGED << runtime_mode, live_auth, reader >>
    /\ UNCHANGED << expVars, auxVars >>

\* lines 271-273, see above.
StopSet(c) ==
    /\ callers[c].pc = "t271"
    /\ running' = FALSE
    /\ strategy_lock' = NoCaller
    /\ callers' = [callers EXCEPT ![c].pc = "idle"]
    /\ threads' = [t \in ThreadIds |->
                     IF Active(t) THEN [threads[t] EXCEPT !.stale = TRUE]
                     ELSE threads[t]]
    /\ window' = [EmptyWindow EXCEPT !.stopped = Sat(window.stopped)]
    /\ UNCHANGED << runtime_mode, live_auth, current_positions, reader >>
    /\ UNCHANGED << expVars, auxVars >>

----------------------------------------------------------------------------
(* strategy_loop, main.py:232-254: one instance per spawned thread *)

\* line 235: while running.  The flag is read without strategy_lock.
LoopCheck(t) ==
    /\ threads[t].pc = "while"
    /\ threads' = [threads EXCEPT ![t] =
                     IF running THEN [@ EXCEPT !.pc = "fetch"] ELSE NoThread]
    /\ UNCHANGED << running, runtime_mode, live_auth, current_positions,
                    strategy_lock, callers, reader, window >>
    /\ UNCHANGED << expVars, auxVars >>

\* lines 237-245: the positions of this poll against one answer of the
\* broker.  A missing live_auth is not an error: positions = [] (241-243).
LoopPositions(resp) ==
    IF runtime_mode = "paper"
    THEN [malformed |-> FALSE, body |-> paper_fetch_positions]
    ELSE IF ~live_auth.present
         THEN EmptyList
         ELSE live_fetch_positions(live_auth, resp)

\* lines 237-247: the positions of this poll and their pnl, or an exception.
LoopFetch(t) ==
    /\ threads[t].pc = "fetch"
    /\ \E r \in { LoopPositions(x) : x \in UpstreamResponses } :
          threads' = [threads EXCEPT ![t] =
                        IF r.malformed
                        THEN [@ EXCEPT !.pc = "except"]
                        ELSE [@ EXCEPT !.pc = "pub_pos",
                                       !.positions = r.body,
                                       !.pnl = compute_pnl(r.body)]]
    /\ UNCHANGED << running, runtime_mode, live_auth, current_positions,
                    strategy_lock, callers, reader, window >>
    /\ UNCHANGED << expVars, auxVars >>

\* line 248: current_positions["positions"] = positions
LoopPubPos(t) ==
    /\ threads[t].pc = "pub_pos"
    /\ current_positions' = [current_positions EXCEPT !.positions = Val(threads[t].positions)]
    /\ threads' = [threads EXCEPT ![t].pc = "pub_pnl"]
    /\ UNCHANGED << running, runtime_mode, live_auth, strategy_lock, callers,
                    reader, window >>
    /\ UNCHANGED << expVars, auxVars >>

\* line 249: current_positions["pnl"] = pnl
LoopPubPnl(t) ==
    /\ threads[t].pc = "pub_pnl"
    /\ current_positions' = [current_positions EXCEPT !.pnl = Val(threads[t].pnl)]
    /\ threads' = [threads EXCEPT ![t] = [@ EXCEPT !.pc = "sleep", !.positions = <<>>, !.pnl = 0]]
    /\ UNCHANGED << running, runtime_mode, live_auth, strategy_lock, callers,
                    reader, window >>
    /\ UNCHANGED << expVars, auxVars >>

\* Variant of LoopExcept in which the exception leaves the thread.
LoopExceptEscapes(t) ==
    /\ threads[t].pc = "except"
    /\ threads' = [threads EXCEPT ![t] = NoThread]
    /\ UNCHANGED << running, runtime_mode, live_auth, current_positions,
                    strategy_lock, callers, reader, window >>
    /\ UNCHANGED << expVars, auxVars >>

\* lines 251-252: except Exception: logger.exception(...)
LoopExcept(t) ==
    /\ threads[t].pc = "except"
    /\ threads' = [threads EXCEPT ![t].pc = "sleep"]
    /\ UNCHANGED << running, runtime_mode, live_auth, current_positions,
                    strategy_lock, callers, reader, window >>
    /\ UNCHANGED << expVars, auxVars >>

\* line 253: time.sleep(10) returns
LoopSleep(t) ==
    /\ threads[t].pc = "sleep"
    /\ threads' = [threads EXCEPT ![t].pc = "while"]
    /\ UNCHANGED << running, runtime_mode, live_auth, current_positions,
                    strategy_lock, callers, reader, window >>
    /\ UNCHANGED << expVars, auxVars >>

----------------------------------------------------------------------------
(* Readers of current_positions: control_status (main.py:361-368) evaluates *)
(* positions before pnl, control_pnl (main.py:370-372) pnl before positions. *)

\* current_positions.get("positions", [])
GetPositions == IF current_positions.positions.set THEN current_positions.positions.val ELSE <<>>

\* current_positions.get("pnl", 0.0)
GetPnl == IF current_positions.pnl.set THEN current_positions.pnl.val ELSE 0

control_status ==
    /\ \/ /\ reader.pc = "idle"
          /\ reader' = [IdleReader EXCEPT !.pc = "status_pnl", !.positions = GetPositions]
       \/ /\ reader.pc = "status_pnl"
          /\ reader' = [reader EXCEPT !.pc = "done", !.pnl = GetPnl]
    /\ UNCHANGED << running, runtime_mode, live_auth, current_positions,
                    strategy_lock, callers, threads, window >>
    /\ UNCHANGED << expVars, auxVars >>

control_pnl ==
    /\ \/ /\ reader.pc = "idle"
          /\ reader' = [IdleReader EXCEPT !.pc = "pnl_positions", !.pnl = GetPnl]
       \/ /\ reader.pc = "pnl_positions"
          /\ reader' = [reader EXCEPT !.pc = "done", !.positions = GetPositions]
    /\ UNCHANGED << running, runtime_mode, live_auth, current_positions,
                    strategy_lock, callers, threads, window >>
    /\ UNCHANGED << expVars, auxVars >>

\* the response is sent
ReaderReturn ==
    /\ reader.pc = "done"
    /\ reader' = IdleReader
    /\ UNCHANGED << running, runtime_mode, live_auth, current_positions,
                    strategy_lock, callers, threads, window >>
    /\ UNCHANGED << expVars, auxVars >>

----------------------------------------------------------------------------
(* Calendar: datetime.date as a proleptic Gregorian ordinal *)

IsLeap(y) == (y % 4 = 0 /\ y % 100 # 0) \/ y % 400 = 0

DaysInMonth(y, m) ==
    IF m = 2 THEN (IF IsLeap(y) THEN 29 ELSE 28)
    ELSE IF m \in {4, 6, 9, 11} THEN 30 ELSE 31

RECURSIVE DaysBeforeMonth(_, _)
DaysBeforeMonth(y, m) ==
    IF m = 1 THEN 0 ELSE DaysBeforeMonth(y, m - 1) + DaysInMonth(y, m - 1)

DaysBeforeYear(y) ==
    (y - 1) * 365 + (y - 1) \div 4 - (y - 1) \div 100 + (y - 1) \div 400

\* datetime.date(y, m, d).toordinal()
Ordinal(y, m, d) == DaysBeforeYear(y) + DaysBeforeMonth(y, m) + d

\* date.weekday(): Monday = 0 ... Sunday = 6
Weekday(ord) == (ord + 6) % 7

\* Variant of last_thursday whose offset is not reduced modulo 7.
last_thursday_no_wrap(year, month) ==
    LET next_month == IF month = 12 THEN Ordinal(year + 1, 1, 1)
                      ELSE Ordinal(year, month + 1, 1)
        last_day == next_month - 1
        offset == Weekday(last_day) - 3
    IN  last_day - offset

\* main.py:276-283
last_thursday(year, month) ==
    LET next_month == IF month = 12 THEN Ordinal(year + 1, 1, 1)
                      ELSE Ordinal(year, month + 1, 1)
        last_day == next_month - 1
        offset == (Weekday(last_day) - 3) % 7
    IN  last_day - offset

\* main.py:285-289
is_expiry_day(dt) ==
    LET today == Ordinal(dt.year, dt.month, dt.day)
        exp == last_thursday(dt.year, dt.month)
    IN  today = exp

\* No date asked about.
NoAsk == [year |-> 0, month |-> 0, day |-> 0, asked |-> FALSE, thursday |-> 0,
          expiry |-> FALSE]

\* last_thursday and is_expiry_day applied to the date held in cal.
AskExpiry ==
    /\ cal.year # 0 /\ ~cal.asked
    /\ cal' = [cal EXCEPT !.asked = TRUE,
                          !.thursday = last_thursday(cal.year, cal.month),
                          !.expiry = is_expiry_day(cal)]
    /\ UNCHANGED << ctlVars, expVars, pnlVars, credVars, apiVars, brokerVars >>

----------------------------------------------------------------------------
(* close_all_positions, main.py:291-323 *)

\* Variant of CloseOne that orders in the direction of the position.
CloseOneSameSide(p) ==
    LET side == IF p.qty > 0 THEN "buy" ELSE "sell"
        close_qty == IF p.qty < 0 THEN -p.qty ELSE p.qty
    IN  IF runtime_mode = "paper"
        THEN [symbol |-> p.symbol, mode |-> "paper", qty |-> close_qty,
              side |-> side, error |-> ""]
        ELSE IF ~live_auth.present
             THEN [symbol |-> p.symbol, mode |-> "", qty |-> 0, side |-> "",
                   error |-> "no_live_auth"]
             ELSE [symbol |-> p.symbol, mode |-> "live", qty |-> close_qty,
                   side |-> side, error |-> ""]

\* Variant of CloseOne that places the live order in either mode.
CloseOneAnyMode(p) ==
    LET side == IF p.qty > 0 THEN "sell" ELSE "buy"
        close_qty == IF p.qty < 0 THEN -p.qty ELSE p.qty
    IN  IF ~live_auth.present
        THEN [symbol |-> p.symbol, mode |-> "", qty |-> 0, side |-> "",
              error |-> "no_live_auth"]
        ELSE [symbol |-> p.symbol, mode |-> "live", qty |-> close_qty,
              side |-> side, error |-> ""]

\* paper_place_order (main.py:96-98) and live_place_order (main.py:114-133)
\* both hand back a result that is appended as it is.
CloseOne(p) ==
    LET side == IF p.qty > 0 THEN "sell" ELSE "buy"
        close_qty == IF p.qty < 0 THEN -p.qty ELSE p.qty
    IN  IF runtime_mode = "paper"
        THEN [symbol |-> p.symbol, mode |-> "paper", qty |-> close_qty,
              side |-> side, error |-> ""]
        ELSE IF ~live_auth.present
             THEN [symbol |-> p.symbol, mode |-> "", qty |-> 0, side |-> "",
                   error |-> "no_live_auth"]
             ELSE [symbol |-> p.symbol, mode |-> "live", qty |-> close_qty,
                   side |-> side, error |-> ""]

RECURSIVE CloseEach(_)
CloseEach(positions) ==
    IF positions = <<>> THEN <<>>
    ELSE LET p == Head(positions)
         IN  IF p.qty = 0 THEN CloseEach(Tail(positions))
             ELSE <<CloseOne(p)>> \o CloseEach(Tail(positions))

close_all_positions ==
    LET results == CloseEach(GetPositions)
    IN  [closed |-> Len(results), details |-> results]

----------------------------------------------------------------------------
(* expiry_force_exit_watcher, main.py:325-350 *)

CutoffHour == 14
CutoffMinute == 0
PollInterval == 30

\* time.sleep(30) between polls: at most this many polls read the same
\* clock minute, and at least one does.
PollsPerMinute == 60 \div PollInterval

NoExit == [closed |-> 0, details |-> <<>>]

\* Variant of ExpiryPoll that never latches triggered_today.
ExpiryPollNoLatch ==
    /\ polls < PollsPerMinute
    /\ polls' = polls + 1
    /\ LET reset == clock.hour = 0 /\ clock.minute = 0
           flag == IF reset THEN FALSE ELSE triggered_today
       IN  IF is_expiry_day(clock) /\ ~flag
              /\ clock.hour = CutoffHour /\ clock.minute = CutoffMinute
           THEN /\ last_exit' = close_all_positions
                /\ triggered_today' = flag
                /\ fired' = fired + 1
           ELSE /\ triggered_today' = flag
                /\ UNCHANGED << fired, last_exit >>
    /\ UNCHANGED << clock, boot >>
    /\ UNCHANGED << ctlVars, auxVars >>

\* Variant of ExpiryPoll that acts only while the bot is running.
ExpiryPollIfRunning ==
    /\ polls < PollsPerMinute
    /\ polls' = polls + 1
    /\ LET reset == clock.hour = 0 /\ clock.minute = 0
           flag == IF reset THEN FALSE ELSE triggered_today
       IN  IF is_expiry_day(clock) /\ ~flag /\ running
              /\ clock.hour = CutoffHour /\ clock.minute = CutoffMinute
           THEN /\ last_exit' = close_all_positions
                /\ triggered_today' = TRUE
                /\ fired' = fired + 1
           ELSE /\ triggered_today' = flag
                /\ UNCHANGED << fired, last_exit >>
    /\ UNCHANGED << clock, boot >>
    /\ UNCHANGED << ctlVars, auxVars >>

\* Variant of ExpiryPoll without the reset at local midnight.
ExpiryPollNoReset ==
    /\ polls < PollsPerMinute
    /\ polls' = polls + 1
    /\ IF is_expiry_day(clock) /\ ~triggered_today
          /\ clock.hour = CutoffHour /\ clock.minute = CutoffMinute
       THEN /\ last_exit' = close_all_positions
            /\ triggered_today' = TRUE
            /\ fired' = fired + 1
       ELSE UNCHANGED << triggered_today, fired, last_exit >>
    /\ UNCHANGED << clock, boot >>
    /\ UNCHANGED << ctlVars, auxVars >>

\* One iteration of the while True loop (lines 332-350).
ExpiryPoll ==
    /\ polls < PollsPerMinute
    /\ polls' = polls + 1
    /\ LET reset == clock.hour = 0 /\ clock.minute = 0
           flag == IF reset THEN FALSE ELSE triggered_today
       IN  IF is_expiry_day(clock) /\ ~flag
              /\ clock.hour = CutoffHour /\ clock.minute = CutoffMinute
           THEN /\ last_exit' = close_all_positions
                /\ triggered_today' = TRUE
                /\ fired' = fired + 1
           ELSE /\ triggered_today' = flag
                /\ UNCHANGED << fired, last_exit >>
    /\ UNCHANGED << clock, boot >>
    /\ UNCHANGED << ctlVars, auxVars >>

----------------------------------------------------------------------------
(* The wall clock the watcher reads *)

MaxDays == 3

NextMinute(c) ==
    IF c.minute < 59 THEN [c EXCEPT !.minute = @ + 1]
    ELSE IF c.hour < 23 THEN [c EXCEPT !.minute = 0, !.hour = @ + 1]
    ELSE IF c.day < DaysInMonth(c.year, c.month)
         THEN [c EXCEPT !.minute = 0, !.hour = 0, !.day = @ + 1]
    ELSE IF c.month < 12
         THEN [c EXCEPT !.minute = 0, !.hour = 0, !.day = 1, !.month = @ + 1]
    ELSE [c EXCEPT !.minute = 0, !.hour = 0, !.day = 1, !.month = 1, !.year = @ + 1]

Date(c) == Ordinal(c.year, c.month, c.day)

\* A minute passes.  The watcher sleeps 30 s, so it has polled in this minute.
Tick ==
    /\ polls >= 1
    /\ Date(NextMinute(clock)) - Date(boot) < MaxDays
    /\ clock' = NextMinute(clock)
    /\ polls' = 0
    /\ fired' = IF Date(NextMinute(clock)) # Date(clock) THEN 0 ELSE fired
    /\ UNCHANGED << boot, triggered_today, last_exit >>
    /\ UNCHANGED << ctlVars, auxVars >>

----------------------------------------------------------------------------
(* Position enrichment: live_engine.py, paper_engine.py, market_data.py *)

MaxBook == 2

Symbols == {"NIFTY-CE", "NIFTY-PE"}

Abs(n) == IF n < 0 THEN -n ELSE n

\* Records of the broker's PositionBook response, as live_engine.py reads
\* them: int(netqty) of either sign or zero, float(netavgprc).
LiveRecords ==
    [tsym : Symbols, netqty : {-3, 0, 2}, netavgprc : {100000, 100125}]

\* Records of paper_positions.json, as paper_engine.py reads them.
PaperRecords ==
    [symbol : Symbols, side : {"BUY", "SELL"}, qty : {2, 3}, avg : {100000, 100125}]

\* What get_ltp answers for each symbol.
Quotes == [Symbols -> {100002, 100500}]

BooksOf(records) == UNION { [1..n -> records] : n \in 0..MaxBook }

NoEnrich == [done |-> FALSE, raised |-> FALSE, positions |-> <<>>]
IdleEnrich == [source |-> "none", auth |-> FALSE, book |-> <<>>,
               quotes |-> [y \in Symbols |-> 0]]

\* Variant of live_position that prices a short like a long of the same size.
live_position_long_only(p, quotes) ==
    LET qty == p.netqty
        ltp == quotes[p.tsym]
        avg == p.netavgprc
        side == IF qty < 0 THEN "SELL" ELSE "BUY"
        pnl == (ltp - avg) * Abs(qty)
    IN  [symbol |-> p.tsym, side |-> side, qty |-> Abs(qty),
         avg |-> avg, ltp |-> ltp, pnl |-> Round2(pnl)]

\* Body of the for loop of live_positions_with_pnl (live_engine.py:30-46).
live_position(p, quotes) ==
    LET qty == p.netqty
        ltp == quotes[p.tsym]
        avg == p.netavgprc
        side == IF qty < 0 THEN "SELL" ELSE "BUY"
        pnl == IF side = "SELL" THEN (avg - ltp) * Abs(qty) ELSE (ltp - avg) * qty
    IN  [symbol |-> p.tsym, side |-> side, qty |-> Abs(qty),
         avg |-> avg, ltp |-> ltp, pnl |-> Round2(pnl)]

RECURSIVE live_positions_with_pnl(_, _)
live_positions_with_pnl(book, quotes) ==
    IF book = <<>> THEN <<>>
    ELSE IF Head(book).netqty = 0
         THEN live_positions_with_pnl(Tail(book), quotes)
         ELSE << live_position(Head(book), quotes) >>
                  \o live_positions_with_pnl(Tail(book), quotes)

\* Body of the for loop of paper_positions_with_pnl (paper_engine.py:13-25):
\* the record itself with ltp and pnl added.
paper_position(p, quotes) ==
    LET ltp == quotes[p.symbol]
        side == p.side
        qty == p.qty
        avg == p.avg
        pnl == IF side = "SELL" THEN (avg - ltp) * qty ELSE (ltp - avg) * qty
    IN  [symbol |-> p.symbol, side |-> side, qty |-> qty,
         avg |-> avg, ltp |-> ltp, pnl |-> Round2(pnl)]

RECURSIVE paper_positions_with_pnl(_, _)
paper_positions_with_pnl(book, quotes) ==
    IF book = <<>> THEN <<>>
    ELSE << paper_position(Head(book), quotes) >>
             \o paper_positions_with_pnl(Tail(book), quotes)

\* A call of live_positions_with_pnl: raises with no credential on file.
LiveEnrich ==
    /\ enrich_in.source = "live"
    /\ ~enrich_out.done
    /\ enrich_out' =
         IF ~enrich_in.auth
         THEN [done |-> TRUE, raised |-> TRUE, positions |-> <<>>]
         ELSE [done |-> TRUE, raised |-> FALSE,
               positions |-> live_positions_with_pnl(enrich_in.book, enrich_in.quotes)]
    /\ UNCHANGED enrich_in
    /\ UNCHANGED << ctlVars, expVars, credVars, apiVars, brokerVars, cal >>

\* A call of paper_positions_with_pnl: get_ltp raises on the first record
\* when no credential is on file.
PaperEnrich ==
    /\ enrich_in.source = "paper"
    /\ ~enrich_out.done
    /\ enrich_out' =
         IF ~enrich_in.auth /\ enrich_in.book # <<>>
         THEN [done |-> TRUE, raised |-> TRUE, positions |-> <<>>]
         ELSE [done |-> TRUE, raised |-> FALSE,
               positions |-> paper_positions_with_pnl(enrich_in.book, enrich_in.quotes)]
    /\ UNCHANGED enrich_in
    /\ UNCHANGED << ctlVars, expVars, credVars, apiVars, brokerVars, cal >>

\* The requests get_ltp has posted to the quote endpoint by the end of a
\* call of paper_positions_with_pnl (market_data.py:19-24): one per record,
\* none when the first get_ltp raised for want of a token.
LtpRequests ==
    IF enrich_in.source = "paper" /\ enrich_out.done /\ ~enrich_out.raised
    THEN Len(enrich_in.book)
    ELSE 0

----------------------------------------------------------------------------
(* The credential file: main.py, telegram_bot.py, callback.py, cancel_all.py,
   live_engine.py, market_data.py *)

\* A file's text is a sequence of JSON tokens.
Token(k, v) == [k |-> k, v |-> v]
ObjOpen == Token("{", "")
ObjClose == Token("}", "")
ArrOpen == Token("[", "")
ArrClose == Token("]", "")

\* Credentials a writer may obtain; sid "" stands for no session id.
Creds == { [jwtToken |-> "jwt1", sid |-> "sid1"], [jwtToken |-> "jwt2", sid |-> ""] }
NoCred == [jwtToken |-> "", sid |-> ""]

\* Variant of Dump that loses the session id.
DumpTokenOnly(c) == << ObjOpen, Token("jwtToken", c.jwtToken), ObjClose >>

\* json.dump of {"jwtToken": jwt} with "sid" added when it is truthy
\* (telegram_bot.py:63-68); the broker's body is dumped the same way.
Dump(c) ==
    IF c.sid = ""
    THEN << ObjOpen, Token("jwtToken", c.jwtToken), ObjClose >>
    ELSE << ObjOpen, Token("jwtToken", c.jwtToken), Token("sid", c.sid), ObjClose >>

\* json.load: the text is one JSON object or one JSON array, or it raises.
IsObject(text) ==
    /\ Len(text) >= 2
    /\ text[1] = ObjOpen
    /\ text[Len(text)] = ObjClose
    /\ \A i \in 2..(Len(text) - 1) : text[i].k \in {"jwtToken", "sid"}

IsArray(text) == text = << ArrOpen, ArrClose >>

HasKey(text, key) == \E i \in 1..Len(text) : text[i].k = key

\* dict.get(key) of the parsed object: the last occurrence wins, "" if none.
Get(text, key) ==
    IF HasKey(text, key)
    THEN LET i == CHOOSE i \in 1..Len(text) :
                    /\ text[i].k = key
                    /\ \A j \in (i + 1)..Len(text) : text[j].k # key
         IN  text[i].v
    ELSE ""

\* The validation of main.py:206-212 and cancel_all.py:46-51.
IsCredential(text) == IsObject(text) /\ HasKey(text, "jwtToken")

NoFile == [exists |-> FALSE, text |-> <<>>]
File(text) == [exists |-> TRUE, text |-> text]

\* Texts the file may hold when the process starts that no writer produced:
\* an empty file, the array [], an object without jwtToken.
ForeignTexts ==
    { <<>>, << ArrOpen, ArrClose >>, << ObjOpen, Token("sid", "sid1"), ObjClose >> }

\* write() through a descriptor at offset 0 of a file that was not
\* truncated since: the bytes beyond the new text stay.
Overwrite(old, new) == new \o SubSeq(old, Len(new) + 1, Len(old))

Writers == {"totp", "settoken", "callback"}
AtomicWriters == {"totp", "settoken"}
IdleWriter == [pc |-> "idle", fd |-> "none", cred |-> NoCred, alone |-> FALSE]

NoLoad == [by |-> "none", kind |-> "none", cred |-> NoCred, valid |-> FALSE,
           expect |-> NoCred]
NoSave == NoCred

\* time.time() at the moment a credential is stored in memory.
Times == {1, 2}

AuthOf(c) == [present |-> TRUE, jwtToken |-> c.jwtToken, sid |-> c.sid]
CredOf(text) == [jwtToken |-> Get(text, "jwtToken"), sid |-> Get(text, "sid")]

\* open(path, "w"): the file is created, or truncated in place.
\* Descriptors other writers hold on it stay valid.
Truncated(path) == [fs EXCEPT ![path] = File(<<>>)]

\* The buffered text reaches the file when the `with` block closes it.  A
\* descriptor whose file was unlinked or replaced over writes to no path.
WrittenThrough(fd, text) ==
    IF fd \in {"tmp", "live"}
    THEN [fs EXCEPT ![fd].text = Overwrite(@, text)]
    ELSE fs

\* Where open descriptors point after os.replace(tmp, live).
AfterReplace(fd) ==
    IF fd = "tmp" THEN "live" ELSE IF fd = "live" THEN "orphan" ELSE fd


Begin(w, c, path) ==
    [x \in Writers |->
        IF x = w
        THEN [pc |-> "opened", fd |-> path, cred |-> c, alone |-> \A y \in Writers \ {w} : writers[y].pc = "idle"]
        ELSE [writers[x] EXCEPT !.alone = FALSE]]

\* exchange_totp_and_store (main.py:182-185) and save_live_auth_atomic
\* (telegram_bot.py:66-68) open the same path live_auth.json.tmp.
SaveOpen(w, c) ==
    /\ w \in AtomicWriters
    /\ writers[w].pc = "idle"
    /\ fs' = Truncated("tmp")
    /\ writers' = Begin(w, c, "tmp")
    /\ UNCHANGED << loaded, saved, cleared, live_auth_ts, live_auth >>
    /\ UNCHANGED << ctlRest, expVars, pnlVars, apiVars, brokerVars, cal >>

\* json.dump and the end of the `with` block.
SaveClose(w) ==
    /\ w \in AtomicWriters
    /\ writers[w].pc = "opened"
    /\ fs' = WrittenThrough(writers[w].fd, Dump(writers[w].cred))
    /\ writers' = [writers EXCEPT ![w].pc = "written", ![w].fd = "none"]
    /\ saved' = IF writers[w].fd = "live" THEN NoSave ELSE saved
    /\ UNCHANGED << loaded, cleared, live_auth_ts, live_auth >>
    /\ UNCHANGED << ctlRest, expVars, pnlVars, apiVars, brokerVars, cal >>

\* os.replace(tmp, LIVE_AUTH_FILE).  It raises when another writer has
\* already renamed the temporary file away; both callers give up then.
SaveReplace(w) ==
    /\ w \in AtomicWriters
    /\ writers[w].pc = "written"
    /\ IF fs.tmp.exists
       THEN /\ fs' = [live |-> fs.tmp, tmp |-> NoFile]
            /\ writers' =
                 [x \in Writers |->
                    IF x = w
                    THEN IF w = "totp"
                         THEN [writers[w] EXCEPT !.pc = "store"]
                         ELSE IdleWriter
                    ELSE [writers[x] EXCEPT !.fd = AfterReplace(@)]]
            /\ saved' = IF writers[w].alone THEN writers[w].cred ELSE NoSave
       ELSE /\ writers' = [writers EXCEPT ![w] = IdleWriter]
            /\ UNCHANGED << fs, saved >>
    /\ UNCHANGED << loaded, cleared, live_auth_ts, live_auth >>
    /\ UNCHANGED << ctlRest, expVars, pnlVars, apiVars, brokerVars, cal >>

\* control_totp (main.py:405-407) keeps the body in memory.
TotpStore ==
    /\ writers["totp"].pc = "store"
    /\ live_auth' = AuthOf(writers["totp"].cred)
    /\ live_auth_ts' \in Times
    /\ cleared' = FALSE
    /\ writers' = [writers EXCEPT !["totp"] = IdleWriter]
    /\ UNCHANGED << fs, loaded, saved >>
    /\ UNCHANGED << ctlRest, expVars, pnlVars, apiVars, brokerVars, cal >>

\* flattrade_callback (callback.py:71): open(LIVE_AUTH_FILE, "w").
CallbackOpen(c) ==
    /\ writers["callback"].pc = "idle"
    /\ fs' = Truncated("live")
    /\ writers' = Begin("callback", c, "live")
    /\ saved' = NoSave
    /\ UNCHANGED << loaded, cleared, live_auth_ts, live_auth >>
    /\ UNCHANGED << ctlRest, expVars, pnlVars, apiVars, brokerVars, cal >>

\* flattrade_callback (callback.py:72): json.dump and the end of the block.
CallbackClose ==
    /\ writers["callback"].pc = "opened"
    /\ fs' = WrittenThrough(writers["callback"].fd, Dump(writers["callback"].cred))
    /\ writers' = [writers EXCEPT !["callback"] = IdleWriter]
    /\ saved' = IF writers["callback"].alone /\ writers["callback"].fd = "live"
                THEN writers["callback"].cred ELSE NoSave
    /\ UNCHANGED << loaded, cleared, live_auth_ts, live_auth >>
    /\ UNCHANGED << ctlRest, expVars, pnlVars, apiVars, brokerVars, cal >>

\* cleartoken (telegram_bot.py:267-272) and daily_clear_loop
\* (telegram_bot.py:108-110): the file is removed; nothing else is told.
ClearFile ==
    /\ fs' = [fs EXCEPT !.live = NoFile]
    /\ writers' = [x \in Writers |->
                     [writers[x] EXCEPT !.fd = IF @ = "live" THEN "orphan" ELSE @]]
    /\ saved' = NoSave
    /\ cleared' = TRUE
    /\ UNCHANGED << loaded, live_auth_ts, live_auth >>
    /\ UNCHANGED << ctlRest, expVars, pnlVars, apiVars, brokerVars, cal >>

Validates == fs.live.exists /\ IsCredential(fs.live.text)

Observed(by, kind, c) ==
    [by |-> by, kind |-> kind, cred |-> c, valid |-> Validates, expect |-> saved]

\* load_live_auth_from_file (main.py:200-221): False unless the file exists
\* and parses to a dict with jwtToken; then the dict goes to memory.
load_live_auth_from_file ==
    /\ IF Validates
       THEN /\ live_auth' = AuthOf(CredOf(fs.live.text))
            /\ live_auth_ts' \in Times
            /\ cleared' = FALSE
            /\ loaded' = Observed("main", "cred", CredOf(fs.live.text))
       ELSE /\ loaded' = Observed("main", "absent", NoCred)
            /\ UNCHANGED << live_auth, live_auth_ts, cleared >>
    /\ UNCHANGED << fs, writers, saved >>

\* A call of load_live_auth_from_file on its own.
LoadMain ==
    /\ load_live_auth_from_file
    /\ UNCHANGED << ctlRest, expVars, pnlVars, apiVars, brokerVars, cal >>

\* load_live_auth_from_file (cancel_all.py:42-55): the same validation,
\* the dict is returned to the caller.
LoadCancelAll ==
    /\ loaded' = IF Validates
                 THEN Observed("cancel_all", "cred", CredOf(fs.live.text))
                 ELSE Observed("cancel_all", "absent", NoCred)
    /\ UNCHANGED << fs, writers, saved, cleared, live_auth_ts, live_auth >>
    /\ UNCHANGED << ctlRest, expVars, pnlVars, apiVars, brokerVars, cal >>

\* load_live_auth (live_engine.py:10-13, market_data.py:8-11): None when
\* the file is missing, else whatever json.load returns or raises.
LoadEngine(by) ==
    /\ loaded' =
         IF ~fs.live.exists THEN Observed(by, "absent", NoCred)
         ELSE IF ~(IsObject(fs.live.text) \/ IsArray(fs.live.text))
              THEN Observed(by, "raise", NoCred)
         ELSE IF IsCredential(fs.live.text)
              THEN Observed(by, "cred", CredOf(fs.live.text))
         ELSE Observed(by, "other", NoCred)
    /\ UNCHANGED << fs, writers, saved, cleared, live_auth_ts, live_auth >>
    /\ UNCHANGED << ctlRest, expVars, pnlVars, apiVars, brokerVars, cal >>

----------------------------------------------------------------------------
(* The control API and the panic paths: main.py, telegram_bot.py, cancel_all.py *)

Endpoints ==
    {"start", "stop", "status", "pnl", "positions", "totp", "liveauth",
     "load_liveauth", "panic"}

\* What a request carries as x-api-key / api_key; "" when it carries none.
Keys == {"", "k1", "bad"}

NoHttp == [op |-> "none", key |-> "", status |-> 0]
NoView == [status |-> 0, jwtToken |-> "", sid |-> "", received_at |-> 0]
NoCancel == [via |-> "none", jwtToken |-> "", sid |-> "", confirmed |-> FALSE]

\* Variant of require_api_key that accepts any key that is present.
require_any_key(key) ==
    IF api_key = "" THEN 500
    ELSE IF key = "" THEN 401
    ELSE 200

\* require_api_key (main.py:79-86): the status the request is refused with,
\* 200 when it may proceed to the handler.
require_api_key(key) ==
    IF api_key = "" THEN 500
    ELSE IF key = "" \/ key # api_key THEN 401
    ELSE 200

\* The dependency raised: the handler of the endpoint is not entered.
Denied(op, key) ==
    /\ require_api_key(key) # 200
    /\ http' = [op |-> op, key |-> key, status |-> require_api_key(key)]
    /\ UNCHANGED << api_key, view, cancel_log >>
    /\ UNCHANGED << ctlVars, expVars, pnlVars, credVars, brokerVars, cal >>

\* Variant of MaskedView that shows the token.
UnmaskedView(auth, ts) ==
    [status |-> 200, jwtToken |-> auth.jwtToken, sid |-> auth.sid, received_at |-> ts]

\* The body control_liveauth returns (main.py:415).
MaskedView(auth, ts) ==
    [status |-> 200, jwtToken |-> "***REDACTED***", sid |-> auth.sid, received_at |-> ts]

\* GET /control/liveauth (main.py:410-416).
control_liveauth(key) ==
    /\ require_api_key(key) = 200
    /\ IF ~live_auth.present
       THEN /\ http' = [op |-> "liveauth", key |-> key, status |-> 404]
            /\ view' = [NoView EXCEPT !.status = 404]
       ELSE /\ http' = [op |-> "liveauth", key |-> key, status |-> 200]
            /\ view' = MaskedView(live_auth, live_auth_ts)
    /\ UNCHANGED << api_key, cancel_log >>
    /\ UNCHANGED << ctlVars, expVars, pnlVars, credVars, brokerVars, cal >>

\* POST /control/load_liveauth (main.py:418-423).
control_load_liveauth(key) ==
    /\ require_api_key(key) = 200
    /\ load_live_auth_from_file
    /\ http' = [op |-> "load_liveauth", key |-> key,
                status |-> IF Validates THEN 200 ELSE 404]
    /\ UNCHANGED << api_key, view, cancel_log >>
    /\ UNCHANGED << ctlRest, expVars, pnlVars, brokerVars, cal >>

\* What the login endpoint may answer to one exchange: the request raises,
\* or a response with a status whose body is not JSON, JSON without
\* jwtToken (cred = NoCred), or JSON with jwtToken.
LoginAnswers ==
    { [raises |-> TRUE, json |-> FALSE, status |-> 0, cred |-> NoCred] } \cup
    { [raises |-> FALSE, json |-> FALSE, status |-> s, cred |-> NoCred] :
        s \in {200, 401} } \cup
    { [raises |-> FALSE, json |-> TRUE, status |-> s, cred |-> c] :
        s \in {200, 401}, c \in Creds \cup {NoCred} }

\* Variant of exchange_ok that does not look at the status.
exchange_ok_any_status(a) == ~a.raises /\ a.json /\ a.cred # NoCred

\* exchange_totp_and_store up to the write (main.py:165-178): the answer is
\* taken for a login only if the request returned, the body is JSON, the
\* status is 200 and the body has jwtToken.
exchange_ok(a) == ~a.raises /\ a.json /\ a.status = 200 /\ a.cred # NoCred

\* POST /control/totp (main.py:395-408) with exchange_totp_and_store
\* (main.py:136-197), FLATTRADE_CLIENT_ID and FLATTRADE_API_SECRET set.
\* `given` is whether the payload carries a totp; `disk` whether the write
\* of the temporary file and os.replace succeed.
control_totp(key, given, a, disk) ==
    /\ require_api_key(key) = 200
    /\ IF ~given
       THEN /\ http' = [op |-> "totp", key |-> key, status |-> 400]
            /\ UNCHANGED << login, credVars, live_auth >>
       ELSE /\ login' = [n |-> 1 - login.n, raises |-> a.raises, json |-> a.json,
                         status |-> a.status, cred |-> a.cred]
            /\ IF ~exchange_ok(a)
               THEN /\ http' = [op |-> "totp", key |-> key, status |-> 502]
                    /\ UNCHANGED << credVars, live_auth >>
               ELSE IF ~disk
               THEN /\ http' = [op |-> "totp", key |-> key, status |-> 502]
                    /\ fs' = [fs EXCEPT !.tmp = File(Dump(a.cred))]
                    /\ UNCHANGED << writers, loaded, saved, cleared,
                                    live_auth_ts, live_auth >>
               ELSE /\ http' = [op |-> "totp", key |-> key, status |-> 200]
                    /\ fs' = [live |-> File(Dump(a.cred)), tmp |-> NoFile]
                    /\ writers' = [x \in Writers |->
                                     [writers[x] EXCEPT !.fd = AfterReplace(@)]]
                    /\ saved' = a.cred
                    /\ cleared' = FALSE
                    /\ live_auth' = AuthOf(a.cred)
                    /\ live_auth_ts' \in Times
                    /\ UNCHANGED loaded
    /\ UNCHANGED << api_key, view, cancel_log >>
    /\ UNCHANGED << upstream, fetched, margin >>
    /\ UNCHANGED << ctlRest, expVars, pnlVars, cal >>

\* POST /control/panic (main.py:425-446).  The handler reads nothing of the
\* request: `confirm` is what the caller put in it.  The POST may fail
\* before it reaches the broker.
control_panic(key, confirm) ==
    /\ require_api_key(key) = 200
    /\ IF ~live_auth.present \/ live_auth.jwtToken = "" \/ live_auth.sid = ""
       THEN /\ http' = [op |-> "panic", key |-> key, status |-> 400]
            /\ UNCHANGED cancel_log
       ELSE \/ /\ http' = [op |-> "panic", key |-> key, status |-> 200]
               /\ cancel_log' = [via |-> "http", jwtToken |-> live_auth.jwtToken,
                                 sid |-> live_auth.sid, confirmed |-> confirm]
            \/ /\ http' = [op |-> "panic", key |-> key, status |-> 500]
               /\ UNCHANGED cancel_log
    /\ UNCHANGED << api_key, view >>
    /\ UNCHANGED << ctlVars, expVars, pnlVars, credVars, brokerVars, cal >>

\* main() of cancel_all.py (lines 105-167) with the flags --confirm and
\* --dry-run: neither flag means dry run, the credential comes from the
\* file, a dry run prints and exits, and only then the request is sent.
cancel_all(via, confirm, dry_run) ==
    LET dry == dry_run \/ (~confirm /\ ~dry_run)
    IN  /\ loaded' = IF Validates
                     THEN Observed("cancel_all", "cred", CredOf(fs.live.text))
                     ELSE Observed("cancel_all", "absent", NoCred)
        /\ IF Validates /\ ~dry /\ confirm
           THEN \/ cancel_log' = [via |-> via,
                                  jwtToken |-> Get(fs.live.text, "jwtToken"),
                                  sid |-> Get(fs.live.text, "sid"),
                                  confirmed |-> confirm]
                \/ UNCHANGED cancel_log
           ELSE UNCHANGED cancel_log
        /\ UNCHANGED << fs, writers, saved, cleared, live_auth_ts, live_auth >>
        /\ UNCHANGED << api_key, http, view >>
        /\ UNCHANGED << ctlRest, expVars, pnlVars, brokerVars, cal >>

\* The operator runs cancel_all.py from a shell.
CancelAllCli(confirm, dry_run) == cancel_all("cli", confirm, dry_run)

\* /panic in the chat (telegram_bot.py:172-191): needs the admin and the
\* word confirm, then runs cancel_all.py --confirm.
panic_cmd(admin, confirm) ==
    IF admin /\ confirm
    THEN cancel_all("chat", TRUE, FALSE)
    ELSE UNCHANGED vars

----------------------------------------------------------------------------
(* Initial states and specifications *)

Modes == {"paper", "live"}

At(y, mo, d, h, mi) == [year |-> y, month |-> mo, day |-> d, hour |-> h, minute |-> mi]

\* Process start times: shortly before the cutoff of an expiry day, shortly
\* before the midnight that begins one, and after the cutoff has passed.
\* (last Thursdays: 2024-01-25, 2024-02-29, 2024-12-26)
StartClocks ==
    { At(2024, 1, 25, 13, 58), At(2024, 2, 28, 23, 58), At(2024, 12, 26, 14, 1) }

\* on_startup (main.py:449-461): live_auth is None or preloaded from the
\* credential file, the watcher thread is started, the bot is not.
InitControl ==
    /\ running = FALSE
    /\ runtime_mode \in Modes
    /\ live_auth \in {NoAuth, Auth1}
    /\ current_positions = [positions |-> Unset, pnl |-> Unset]
    /\ strategy_lock = NoCaller
    /\ callers = [c \in Callers |-> IdleCaller]
    /\ threads = [t \in ThreadIds |-> NoThread]
    /\ reader = IdleReader
    /\ window = EmptyWindow

\* The credential store as on_startup finds it, matching what it preloaded.
InitStore ==
    /\ fs = [live |-> IF live_auth.present
                      THEN File(Dump([jwtToken |-> live_auth.jwtToken,
                                      sid |-> live_auth.sid]))
                      ELSE NoFile,
             tmp |-> NoFile]
    /\ writers = [w \in Writers |-> IdleWriter]
    /\ loaded = NoLoad
    /\ saved = NoSave
    /\ cleared = FALSE
    /\ live_auth_ts = IF live_auth.present THEN 1 ELSE 0

\* The control API configured and not yet called.
InitApiIdle ==
    /\ api_key = "k1"
    /\ http = NoHttp
    /\ view = NoView
    /\ cancel_log = NoCancel

\* The margin level at or below which the bot is to stop, and the readings
\* around it.
MarginExitThreshold == 150000
Margins == { MarginExitThreshold - 1, MarginExitThreshold, MarginExitThreshold + 1 }

\* No TOTP exchange made yet.
NoLogin == [n |-> 0, raises |-> FALSE, json |-> FALSE, status |-> 0, cred |-> NoCred]

\* No positions request in flight; the account well funded.
NoFetch == [done |-> FALSE, raised |-> FALSE, positions |-> <<>>]

InitBrokerIdle ==
    /\ upstream = TransportError
    /\ fetched = NoFetch
    /\ margin = MarginExitThreshold + 1
    /\ login = NoLogin
    /\ cal = NoAsk

\* The other components at rest.
InitAux ==
    /\ enrich_in = IdleEnrich
    /\ enrich_out = NoEnrich
    /\ InitStore
    /\ InitApiIdle
    /\ InitBrokerIdle

InitWatcher ==
    /\ polls = 0
    /\ triggered_today = FALSE
    /\ fired = 0
    /\ last_exit = NoExit

Init ==
    /\ InitControl
    /\ InitWatcher
    /\ InitAux
    /\ clock = At(2024, 1, 25, 13, 58)
    /\ boot = clock

Next ==
    \/ \E c \in Callers : control_start(c)
    \/ \E c \in Callers : StartAcquire(c)
    \/ \E c \in Callers : StartCheck(c)
    \/ \E c \in Callers : StartSet(c)
    \/ \E c \in Callers : StartSpawn(c)
    \/ \E c \in Callers : control_stop(c)
    \/ \E c \in Callers : StopAcquire(c)
    \/ \E c \in Callers : StopSet(c)
    \/ \E t \in ThreadIds : LoopCheck(t)
    \/ \E t \in ThreadIds : LoopFetch(t)
    \/ \E t \in ThreadIds : LoopPubPos(t)
    \/ \E t \in ThreadIds : LoopPubPnl(t)
    \/ \E t \in ThreadIds : LoopExcept(t)
    \/ \E t \in ThreadIds : LoopSleep(t)

Spec == Init /\ [][Next]_vars

\* The controller together with a request thread that reads the snapshot.
NextRead ==
    \/ Next
    \/ control_status
    \/ control_pnl
    \/ ReaderReturn

SpecRead == Init /\ [][NextRead]_vars

\* The watcher against the clock, with the controller at rest in a state the
\* controller reaches: never started, running with a published snapshot, or
\* stopped again after one.
Snapshot(book) == [positions |-> Val(book), pnl |-> Val(compute_pnl(book))]

InitExpiry ==
    /\ InitWatcher
    /\ clock \in StartClocks
    /\ boot = clock
    /\ strategy_lock = NoCaller
    /\ callers = [c \in Callers |-> IdleCaller]
    /\ reader = IdleReader
    /\ window = EmptyWindow
    /\ runtime_mode \in Modes
    /\ live_auth \in {NoAuth, Auth1}
    /\ running \in BOOLEAN
    /\ threads = [t \in ThreadIds |->
                    IF running /\ t = 1 THEN [NoThread EXCEPT !.pc = "sleep"] ELSE NoThread]
    /\ current_positions \in
         { [positions |-> Unset, pnl |-> Unset] } \cup
         { Snapshot(o.body) :
             o \in { x \in { LoopPositions(r) : r \in WideResponses } : ~x.malformed } }
    /\ InitAux

NextExpiry ==
    \/ ExpiryPoll
    \/ Tick

SpecExpiry == InitExpiry /\ [][NextExpiry]_vars

\* The enrichment functions applied to every input of the bounded sets.
InitPnl ==
    /\ InitControl
    /\ InitWatcher
    /\ clock = At(2024, 1, 25, 13, 58)
    /\ boot = clock
    /\ enrich_out = NoEnrich
    /\ InitStore
    /\ InitApiIdle
    /\ InitBrokerIdle
    /\ \E src \in {"live", "paper"}, a \in BOOLEAN, q \in Quotes :
         \E b \in BooksOf(IF src = "live" THEN LiveRecords ELSE PaperRecords) :
            enrich_in = [source |-> src, auth |-> a, book |-> b, quotes |-> q]

NextPnl ==
    \/ LiveEnrich
    \/ PaperEnrich

SpecPnl == InitPnl /\ [][NextPnl]_vars

\* The credential store: its writers, the clear and the loaders, from a
\* store the program itself left behind.
InitCred ==
    /\ InitControl
    /\ InitWatcher
    /\ clock = At(2024, 1, 25, 13, 58)
    /\ boot = clock
    /\ InitAux

NextCred ==
    \/ \E w \in AtomicWriters, c \in Creds : SaveOpen(w, c)
    \/ \E w \in AtomicWriters : SaveClose(w)
    \/ \E w \in AtomicWriters : SaveReplace(w)
    \/ TotpStore
    \/ \E c \in Creds : CallbackOpen(c)
    \/ CallbackClose
    \/ ClearFile
    \/ LoadMain
    \/ LoadCancelAll
    \/ \E by \in {"live_engine", "market_data"} : LoadEngine(by)

SpecCred == InitCred /\ [][NextCred]_vars

\* The same components started on any file, one no writer produced included.
InitLoad ==
    /\ InitControl
    /\ InitWatcher
    /\ clock = At(2024, 1, 25, 13, 58)
    /\ boot = clock
    /\ enrich_in = IdleEnrich
    /\ enrich_out = NoEnrich
    /\ InitApiIdle
    /\ InitBrokerIdle
    /\ \/ InitStore
       \/ /\ live_auth = NoAuth
          /\ \E t \in ForeignTexts : fs = [live |-> File(t), tmp |-> NoFile]
          /\ writers = [w \in Writers |-> IdleWriter]
          /\ loaded = NoLoad
          /\ saved = NoSave
          /\ cleared = FALSE
          /\ live_auth_ts = 0

SpecLoad == InitLoad /\ [][NextCred]_vars

\* The control API, the chat and the shell around a controller at rest, with
\* CONTROL_API_KEY configured or not.
InitApi ==
    /\ InitWatcher
    /\ clock = At(2024, 1, 25, 13, 58)
    /\ boot = clock
    /\ strategy_lock = NoCaller
    /\ callers = [c \in Callers |-> IdleCaller]
    /\ reader = IdleReader
    /\ window = EmptyWindow
    /\ runtime_mode \in Modes
    /\ live_auth \in {NoAuth, Auth1}
    /\ running \in BOOLEAN
    /\ threads = [t \in ThreadIds |->
                    IF running /\ t = 1 THEN [NoThread EXCEPT !.pc = "sleep"] ELSE NoThread]
    /\ current_positions = [positions |-> Unset, pnl |-> Unset]
    /\ enrich_in = IdleEnrich
    /\ enrich_out = NoEnrich
    /\ InitStore
    /\ InitBrokerIdle
    /\ api_key \in {"", "k1"}
    /\ http = NoHttp
    /\ view = NoView
    /\ cancel_log = NoCancel

NextApi ==
    \/ \E op \in Endpoints, key \in Keys : Denied(op, key)
    \/ \E key \in Keys : control_liveauth(key)
    \/ \E key \in Keys : control_load_liveauth(key)
    \/ \E key \in Keys, confirm \in BOOLEAN : control_panic(key, confirm)
    \/ \E confirm, dry_run \in BOOLEAN : CancelAllCli(confirm, dry_run)
    \/ \E admin, confirm \in BOOLEAN : panic_cmd(admin, confirm)
    \/ ClearFile

SpecApi == InitApi /\ [][NextApi]_vars

\* The two endpoints that put a credential into memory, and the clear of
\* the file by the chat bot.
NextTotp ==
    \/ \E key \in Keys, given, disk \in BOOLEAN, a \in LoginAnswers :
          control_totp(key, given, a, disk)
    \/ \E key \in Keys : control_load_liveauth(key)
    \/ ClearFile

SpecTotp == InitApi /\ [][NextTotp]_vars

\* The position source of one strategy_loop poll (main.py:237-245) applied to
\* every mode, every credential in memory and every answer of the broker.
PollSource ==
    /\ ~fetched.done
    /\ LET r == LoopPositions(upstream)
       IN  fetched' = [done |-> TRUE, raised |-> r.malformed, positions |-> r.body]
    /\ UNCHANGED << upstream, margin, login >>
    /\ UNCHANGED << ctlVars, expVars, pnlVars, credVars, apiVars, cal >>

InitFetch ==
    /\ running = TRUE
    /\ runtime_mode \in Modes
    /\ live_auth \in { NoAuth } \cup { AuthOf(c) : c \in Creds }
    /\ current_positions = [positions |-> Unset, pnl |-> Unset]
    /\ strategy_lock = NoCaller
    /\ callers = [c \in Callers |-> IdleCaller]
    /\ threads = [t \in ThreadIds |->
                    IF t = 1 THEN [NoThread EXCEPT !.pc = "fetch"] ELSE NoThread]
    /\ reader = IdleReader
    /\ window = EmptyWindow
    /\ InitWatcher
    /\ clock = At(2024, 1, 25, 13, 58)
    /\ boot = clock
    /\ enrich_in = IdleEnrich
    /\ enrich_out = NoEnrich
    /\ InitStore
    /\ InitApiIdle
    /\ upstream \in WideResponses
    /\ fetched = NoFetch
    /\ margin = MarginExitThreshold + 1
    /\ login = NoLogin
    /\ cal = NoAsk

SpecFetch == InitFetch /\ [][PollSource]_vars

\* The calendar functions applied to every date of the years of the model:
\* MaxYears consecutive years from FirstYear, and three century years.
InitCal ==
    /\ InitControl
    /\ InitWatcher
    /\ clock = At(2024, 1, 25, 13, 58)
    /\ boot = clock
    /\ enrich_in = IdleEnrich
    /\ enrich_out = NoEnrich
    /\ InitStore
    /\ InitApiIdle
    /\ upstream = TransportError
    /\ fetched = NoFetch
    /\ margin = MarginExitThreshold + 1
    /\ login = NoLogin
    /\ \E y \in (FirstYear .. FirstYear + MaxYears - 1) \cup {1900, 2000, 2100},
          m \in 1..12 :
          \E d \in 1..DaysInMonth(y, m) :
             cal = [NoAsk EXCEPT !.year = y, !.month = m, !.day = d]

SpecCal == InitCal /\ [][AskExpiry]_vars

\* The account's available margin changes.
MarginMove(m) ==
    /\ m # margin
    /\ margin' = m
    /\ UNCHANGED << upstream, fetched, login >>
    /\ UNCHANGED << ctlVars, expVars, pnlVars, credVars, apiVars, cal >>

\* A step of a strategy_loop thread.
LoopStep ==
    \E t \in ThreadIds :
        \/ LoopCheck(t)
        \/ LoopFetch(t)
        \/ LoopPubPos(t)
        \/ LoopPubPnl(t)
        \/ LoopExcept(t)
        \/ LoopSleep(t)

\* The bot started and left to itself: no operator request arrives, the
\* strategy loop polls, the margin of the account moves.
InitMargin ==
    /\ running = TRUE
    /\ runtime_mode \in Modes
    /\ live_auth \in {NoAuth, Auth1}
    /\ current_positions = [positions |-> Unset, pnl |-> Unset]
    /\ strategy_lock = NoCaller
    /\ callers = [c \in Callers |-> IdleCaller]
    /\ threads = [t \in ThreadIds |->
                    IF t = 1 THEN [NoThread EXCEPT !.pc = "while"] ELSE NoThread]
    /\ reader = IdleReader
    /\ window = EmptyWindow
    /\ InitWatcher
    /\ clock = At(2024, 1, 25, 13, 58)
    /\ boot = clock
    /\ enrich_in = IdleEnrich
    /\ enrich_out = NoEnrich
    /\ InitStore
    /\ InitApiIdle
    /\ upstream = TransportError
    /\ fetched = NoFetch
    /\ margin \in Margins
    /\ login = NoLogin
    /\ cal = NoAsk

NextMargin ==
    \/ LoopStep
    \/ \E m \in Margins : MarginMove(m)

\* The threads of the process keep running.
SpecMargin == InitMargin /\ [][NextMargin]_vars /\ WF_vars(LoopStep)

----------------------------------------------------------------------------
(* Properties of the session controller (Spec, SpecRead) *)

Shared == << running, runtime_mode, live_auth, current_positions, threads >>

\* C1: in every reachable state at most one strategy loop instance is alive,
\* whatever the interleaving of start(), stop() and loop iterations.
C1_AtMostOneLoop == Cardinality(ActiveLoops) <= 1

\* C2: between two stops at most one start() returns "started" and spawns a
\* loop; of two start() calls in such a window exactly one returned "started";
\* and a start() that returns "already_running" changes nothing.
AlreadyRunningReturn(c) ==
    callers[c].pc = "s260" /\ callers'[c].pc = "idle"

C2_OneStartPerWindow ==
    /\ [](/\ window.started <= 1
          /\ (window.started + window.already >= 2 => window.started = 1))
    /\ [][\A c \in Callers : AlreadyRunningReturn(c) => UNCHANGED Shared]_vars

\* Two start() calls with no stop() between them have both returned.
C2_Witness == window.started = 1 /\ window.already >= 1

\* C3: once a stop() has returned and no start() has set the flag since,
\* running is false (so it is after two concurrent stops); a stop() on a
\* stopped controller changes nothing.
StopReturn(c) ==
    callers[c].pc = "t271" /\ callers'[c].pc = "idle"

C3_StopIdempotent ==
    /\ [](window.stopped >= 1 => ~running)
    /\ [][\A c \in Callers : (StopReturn(c) /\ ~running) => UNCHANGED Shared]_vars

\* Two stop() calls have returned with no start() in between, the second
\* of them on a controller that was already stopped.
C3_Witness == window.stopped >= 2 /\ ~running

\* C4: the step that handles a fault raised inside an iteration leaves
\* running false.
C4_FaultStopsLoop ==
    [][\A t \in ThreadIds :
         (threads[t].pc = "except" /\ threads'[t].pc # "except") => ~running']_vars

\* C5: in live mode a loop goes on to publish a snapshot only with a
\* credential loaded; with the credential absent it does not publish.
C5_LiveNeedsCredential ==
    \A t \in ThreadIds :
        (runtime_mode = "live" /\ threads[t].pc \in {"pub_pos", "pub_pnl"})
            => live_auth.present

\* C6: the pnl a reader returns is the pnl of the positions it returns.
C6_ReaderConsistent ==
    reader.pc = "done" => reader.pnl = compute_pnl(reader.positions)

\* C7: a loop that was alive when a stop() returned does not begin another
\* iteration: at its next `while running` check it terminates.
C7_StopBoundsLoop ==
    [][\A t \in ThreadIds :
         (threads[t].stale /\ threads[t].pc = "while")
             => threads'[t].pc \in {"while", "none"}]_vars

----------------------------------------------------------------------------
(* Properties of the expiry watcher (SpecExpiry) *)

\* Minutes from the start of the boot date.
Elapsed(c) == (Date(c) - Date(boot)) * 1440 + c.hour * 60 + c.minute
Cutoff(c) == (Date(c) - Date(boot)) * 1440 + CutoffHour * 60 + CutoffMinute

\* C8: on no date does the watcher execute the forced exit twice.
C8_AtMostOncePerDay == fired <= 1

\* The second poll inside the trigger minute, after the first one fired.
C8_Witness ==
    /\ is_expiry_day(clock)
    /\ clock.hour = CutoffHour /\ clock.minute = CutoffMinute
    /\ polls = PollsPerMinute /\ fired = 1

\* C9: once the cutoff minute of an expiry date has passed with the watcher
\* polling since before it, the forced exit has fired on that date.
PolledThroughCutoff ==
    /\ is_expiry_day(clock)
    /\ Elapsed(boot) <= Cutoff(clock)
    /\ Elapsed(clock) > Cutoff(clock)

C9_FiresAtCutoff == PolledThroughCutoff => fired >= 1

\* The cutoff has passed on an expiry date while the bot was not running.
C9_Witness == PolledThroughCutoff /\ fired = 1 /\ ~running

\* C10: the step in which the watcher fires leaves running false.
C10_FireStops == [][fired' > fired => ~running']_vars

\* C11: the watcher acts only while the bot is running: a poll made with
\* running false executes no forced exit, places no closing order and does
\* not set its fired-today flag.
C11_ActsOnlyWhileRunning ==
    [][~running => /\ fired' <= fired
                   /\ (triggered_today' => triggered_today)
                   /\ (last_exit' = last_exit \/ last_exit'.closed = 0)]_vars

----------------------------------------------------------------------------
(* Properties of position enrichment (SpecPnl) *)

\* The holdings an enrichment call read, in the record format compute_pnl
\* takes: one signed quantity per position.
SignedBook ==
    [i \in 1..Len(enrich_in.book) |->
        LET p == enrich_in.book[i]
        IN  IF enrich_in.source = "live"
            THEN [symbol |-> p.tsym, qty |-> p.netqty,
                  avg_price |-> p.netavgprc, ltp |-> enrich_in.quotes[p.tsym]]
            ELSE [symbol |-> p.symbol,
                  qty |-> IF p.side = "SELL" THEN -p.qty ELSE p.qty,
                  avg_price |-> p.avg, ltp |-> enrich_in.quotes[p.symbol]]]

\* The formula of the claim on an enriched position.
FormulaPnl(p) ==
    IF p.side = "SELL" THEN (p.avg - p.ltp) * p.qty ELSE (p.ltp - p.avg) * p.qty

RECURSIVE SumReported(_)
SumReported(ps) == IF ps = <<>> THEN 0 ELSE Head(ps).pnl + SumReported(Tail(ps))

RECURSIVE SumFormula(_)
SumFormula(ps) == IF ps = <<>> THEN 0 ELSE FormulaPnl(Head(ps)) + SumFormula(Tail(ps))

Enriched == enrich_out.done /\ ~enrich_out.raised

\* C12 as stated: every enriched position carries a positive quantity and
\* the profit and loss of the formula, and compute_pnl over the signed
\* quantities equals the sum of the per-position values.
C12_PnlFormula ==
    Enriched =>
        LET ps == enrich_out.positions
        IN  /\ \A i \in 1..Len(ps) : ps[i].qty >= 1 /\ ps[i].pnl = FormulaPnl(ps[i])
            /\ compute_pnl(SignedBook) = SumReported(ps)

\* C12 amended: every enriched position carries a positive quantity and the
\* profit and loss of the formula rounded to two places, and compute_pnl over
\* the signed quantities equals the sum of the unrounded per-position values,
\* rounded to two places.
C12_PnlFormulaRounded ==
    Enriched =>
        LET ps == enrich_out.positions
        IN  /\ \A i \in 1..Len(ps) :
                 ps[i].qty >= 1 /\ ps[i].pnl = Round2(FormulaPnl(ps[i]))
            /\ compute_pnl(SignedBook) = Round2(SumFormula(ps))

\* A live book with a long and a short has been enriched, and rounding
\* changed a value.
C12_Witness ==
    /\ Enriched
    /\ enrich_in.source = "live"
    /\ \E i, j \in 1..Len(enrich_out.positions) :
          /\ enrich_out.positions[i].side = "BUY"
          /\ enrich_out.positions[j].side = "SELL"
          /\ enrich_out.positions[j].pnl # FormulaPnl(enrich_out.positions[j])

----------------------------------------------------------------------------
(* Properties of the credential store (SpecCred, SpecLoad) *)

Loaded == loaded.kind # "none"

\* C13: whatever writers and loaders interleave, a load returns a complete
\* credential some writer saved, or absent; it never raises on, nor returns,
\* a partially written or mixed text.
C13_LoadsComplete ==
    Loaded => \/ loaded.kind = "absent"
              \/ loaded.kind = "cred" /\ loaded.cred \in Creds

\* C15: a load made when no file exists, or when the text of the file fails
\* validation, returns absent.
C15_InvalidIsAbsent ==
    (Loaded /\ ~loaded.valid) => loaded.kind = "absent"

\* C16: a load made after a save of c, with no other save or clear since
\* the save began, returns a credential with the token and session id of c.
C16_RoundTrip ==
    (Loaded /\ loaded.expect # NoSave)
        => loaded.kind = "cred" /\ loaded.cred = loaded.expect

\* load_live_auth_from_file has read back a saved credential that carries a
\* session id.
C16_Witness ==
    /\ loaded.by = "main"
    /\ loaded.expect \in Creds
    /\ loaded.expect.sid # ""
    /\ loaded.cred = loaded.expect

----------------------------------------------------------------------------
(* Properties of the control API and the panic paths (SpecApi) *)

\* C14: once the credential file has been cleared, no later operation of
\* the control process sends a cancel request with, or reports, the
\* credential it still holds from before the clear.
C14_NoUseAfterClear ==
    [][cleared => /\ (cancel_log' # cancel_log => cancel_log'.via # "http")
                  /\ (view' # view => view'.status # 200)]_vars

\* Tokens a credential might hold.
Secrets == {"jwt1", "jwt2", "jwt3"}

\* C17: the masked view shows a fixed placeholder for the token, the session
\* id and load time as held, and is the same whatever the token is.
C17_MaskedView ==
    [][(view' # view /\ view'.status = 200) =>
          /\ view'.jwtToken = "***REDACTED***"
          /\ view'.sid = live_auth.sid
          /\ view'.received_at = live_auth_ts
          /\ \A t \in Secrets :
                MaskedView([live_auth EXCEPT !.jwtToken = t], live_auth_ts) = view']_vars

\* The masked view of a loaded credential has been returned.
C17_Witness ==
    /\ view.status = 200
    /\ view.sid = "sid1"
    /\ live_auth.present /\ live_auth.jwtToken = "jwt1"

\* The request carries no key, or not the configured one.
BadKey(key) == key = "" \/ key # api_key

Untouched == << ctlVars, expVars, pnlVars, credVars, brokerVars, cal, api_key, view,
               cancel_log >>

\* C18 as stated: a control request with a missing or wrong key is answered
\* 401 and changes nothing: no flag, mode, credential, snapshot or latch,
\* and no request goes to the broker.
C18_DeniedUnauthorized ==
    [][(http' # http /\ BadKey(http'.key))
          => http'.status = 401 /\ UNCHANGED Untouched]_vars

\* C18 amended: a control request with a missing or wrong key is answered
\* 401, or 500 when the server has no key configured, and changes nothing.
C18_DeniedUnchanged ==
    [][(http' # http /\ BadKey(http'.key))
          => /\ http'.status = IF api_key = "" THEN 500 ELSE 401
             /\ UNCHANGED Untouched]_vars

\* A panic request with a wrong key has been refused while the bot was
\* running with a credential loaded; no cancel request was sent.
C18_Witness ==
    /\ http = [op |-> "panic", key |-> "bad", status |-> 401]
    /\ running /\ live_auth.present
    /\ cancel_log = NoCancel

\* C19: a panic that sends its cancel request while the bot is running
\* leaves running false.
C19_PanicStops ==
    [][(running /\ cancel_log' # cancel_log) => ~running']_vars

\* C20: a cancel-all request reaches the broker only from a caller that
\* confirmed explicitly, through the shell, the chat or the HTTP endpoint.
C20_CancelNeedsConfirm ==
    cancel_log.via # "none" => cancel_log.confirmed

----------------------------------------------------------------------------
(* The position sources *)

\* The credential in memory can open a session, and the broker answered 200
\* with an empty list of positions.
GenuinelyFlat ==
    /\ live_auth.present /\ live_auth.jwtToken # "" /\ live_auth.sid # ""
    /\ ~upstream.raises /\ upstream.status = 200
    /\ ~upstream.malformed /\ upstream.body = <<>>

\* C21: the live position source hands back an empty list only when the
\* broker genuinely reported no positions; a transport error, a non-success
\* status or an absent or incomplete credential never shows as [].
C21_EmptyOnlyWhenFlat ==
    (fetched.done /\ runtime_mode = "live" /\ ~fetched.raised
        /\ fetched.positions = <<>>) => GenuinelyFlat

\* C22: the simulated position source performs no network call and needs
\* no live credential: a call of it never fails for want of one and posts
\* no request.
C22_PaperNeedsNothing ==
    (enrich_in.source = "paper" /\ enrich_out.done)
        => (~enrich_out.raised /\ LtpRequests = 0)

----------------------------------------------------------------------------
(* The loops *)

\* No start_bot call stands between running = True and the start of its thread.
StartReturned == \A c \in Callers : callers[c].pc # "s263"

C24_MarginBreachStops ==
    <>[](margin <= MarginExitThreshold) => <>(~running)

\* C25: the mode is LIVE only with a credential stored, in memory or in
\* the credential file.
C25_LiveOnlyWithCredential ==
    runtime_mode = "live" => (live_auth.present \/ Validates)

\* C26: the watcher's 'already fired today' flag is cleared at local
\* midnight: a flag set by a firing of an earlier date (none on the current
\* date) survives only until the first poll of the minute 00:00, so it is
\* false before the cutoff of every later day.
C26_FlagClearedAtMidnight ==
    (triggered_today /\ fired = 0) => (clock.hour = 0 /\ clock.minute = 0 /\ polls = 0)

\* The day after a force-exit that closed positions, past midnight, with
\* the flag false again.
C26_Witness ==
    /\ Date(clock) > Date(boot)
    /\ last_exit.closed > 0
    /\ fired = 0
    /\ ~triggered_today
    /\ clock.hour = 0 /\ clock.minute = 1

----------------------------------------------------------------------------
(* Failed credential operations *)

\* The exchange failed: transport error, a body that is not JSON, a status
\* other than 200, or no token in the response.
LoginFailed(a) == a.raises \/ ~a.json \/ a.status # 200 \/ a.cred = NoCred

\* C27: a failed credential operation leaves the stored credential as it
\* was: a TOTP exchange that fails is answered 502 and changes neither the
\* file nor memory; a load with no valid file is answered 404 and leaves
\* memory unchanged.
C27_FailureChangesNothing ==
    /\ [][(login' # login /\ LoginFailed(login'))
            => /\ http'.op = "totp" /\ http'.status = 502
               /\ UNCHANGED << fs, live_auth, live_auth_ts >>]_vars
    /\ [][(http' # http /\ http'.op = "load_liveauth"
              /\ require_api_key(http'.key) = 200 /\ ~Validates)
            => /\ http'.status = 404
               /\ UNCHANGED << live_auth, live_auth_ts >>]_vars

\* An exchange has failed with a credential in memory and in the file.
C27_Witness ==
    /\ login # NoLogin /\ LoginFailed(login)
    /\ http.op = "totp" /\ http.status = 502
    /\ live_auth = Auth1 /\ Validates

----------------------------------------------------------------------------
(* Positions and forced close *)

\* C28: every position of the published snapshot has a strictly positive
\* quantity; its direction shows only in its side.
C28_PositiveQuantities ==
    \A i \in 1..Len(GetPositions) : GetPositions[i].qty > 0

\* The closing orders the positions of a snapshot call for: none for a
\* flat position, else one of the opposite direction and the absolute size.
RECURSIVE ClosingOrders(_)
ClosingOrders(positions) ==
    IF positions = <<>> THEN <<>>
    ELSE LET p == Head(positions)
             order == [symbol |-> p.symbol,
                       side |-> IF p.qty > 0 THEN "sell" ELSE "buy",
                       qty |-> Abs(p.qty)]
         IN  IF p.qty = 0 THEN ClosingOrders(Tail(positions))
             ELSE << order >> \o ClosingOrders(Tail(positions))

\* The orders a result of close_all_positions says were placed.
RECURSIVE PlacedOrders(_)
PlacedOrders(details) ==
    IF details = <<>> THEN <<>>
    ELSE LET d == Head(details)
         IN  IF d.mode = "" THEN PlacedOrders(Tail(details))
             ELSE << [symbol |-> d.symbol, side |-> d.side, qty |-> d.qty] >>
                    \o PlacedOrders(Tail(details))

\* C29: a forced close places, for every position of the published
\* snapshot with a non-zero quantity, exactly one closing order of the
\* opposite direction (sell for long, buy for short) and of the absolute
\* size, none for a flat position, and the count it returns is the number
\* of non-zero positions.
C29_OneClosingOrderEach ==
    [][fired' > fired =>
         /\ PlacedOrders(last_exit'.details) = ClosingOrders(GetPositions)
         /\ last_exit'.closed = Len(ClosingOrders(GetPositions))]_vars

\* A forced close in live mode over a flat, a long and a short position:
\* a sell and a buy were placed.
C29_Witness ==
    /\ fired = 1 /\ runtime_mode = "live"
    /\ GetPositions = LiveBookB
    /\ last_exit.closed = 2
    /\ last_exit.details[1].side = "sell" /\ last_exit.details[1].qty = 25
    /\ last_exit.details[2].side = "buy" /\ last_exit.details[2].qty = 50

----------------------------------------------------------------------------
(* The frame of stop_bot *)

\* A step of a stop_bot call by c: it arrives, takes the lock, or clears the
\* flag and returns.
StopStep(c) ==
    /\ callers'[c] # callers[c]
    /\ \/ callers'[c].pc \in {"stop_wait", "t271"}
       \/ callers[c].pc = "t271"

\* C31: stop() changes only the running flag: the published positions and
\* pnl, the mode, the credential in memory and the credential file are as
\* they were, so the readers keep reporting the last published snapshot.
C31_StopFrame ==
    [][\A c \in Callers :
         StopStep(c) =>
            /\ UNCHANGED << current_positions, runtime_mode, live_auth,
                            live_auth_ts, fs >>
            /\ GetPositions' = GetPositions /\ GetPnl' = GetPnl]_vars

\* A stop() has returned on a bot that had published positions; they are
\* still published.
C31_Witness ==
    /\ window.stopped >= 1 /\ ~running
    /\ current_positions.pnl.set /\ GetPositions # <<>>

----------------------------------------------------------------------------
(* The expiry date *)

\* The first and the last day of the month asked about.
MonthFirst == Ordinal(cal.year, cal.month, 1)
MonthLast == Ordinal(cal.year, cal.month, DaysInMonth(cal.year, cal.month))

\* 2024-01-04 was a Thursday.
IsThursday(ord) == (ord - Ordinal(2024, 1, 4)) % 7 = 0

\* C32: for every year and month last_thursday returns a date of that
\* month that is a Thursday and whose date seven days later falls in the
\* next month, and is_expiry_day holds for exactly that date of the month.
C32_LastThursday ==
    cal.asked =>
        /\ MonthFirst <= cal.thursday /\ cal.thursday <= MonthLast
        /\ IsThursday(cal.thursday)
        /\ cal.thursday + 7 > MonthLast
        /\ cal.expiry <=> (Ordinal(cal.year, cal.month, cal.day) = cal.thursday)

\* The leap day of 2024, a Thursday, has been found to be the expiry day of
\* its month.
C32_Witness ==
    /\ cal.asked /\ cal.expiry
    /\ cal.year = 2024 /\ cal.month = 2 /\ cal.day = 29

====
